---- MODULE Spec2Model ----
(***************************************************************************)
(* Model of fourwords.py: vocabulary extraction from USFM text, generation *)
(* of unique 4-letter nonsense words, lexicon construction and the         *)
(* rewriting of USFM content.  A Python str is a sequence of one-character *)
(* strings; a dict is a sequence of records in insertion order.            *)
(***************************************************************************)
EXTENDS Integers, Sequences, FiniteSets, TLC

VARIABLES
    pc,             \* position of the modelled call
    text,           \* punctuation pass: the string being normalised
    once,           \* punctuation pass: result of the first application
    round,          \* punctuation pass: 1 or 2
    chars,          \* generate_unique_nonsense_words: chars
    num_words,      \* generate_unique_nonsense_words: num_words
    words,          \* generate_unique_nonsense_words: words (a set)
    nonsense_words, \* list of generated words
    vocabulary,     \* extract_vocabulary_from_usfm: vocabulary of one file
    all_vocabulary, \* process_usfm_directory: all_vocabulary
    lexicon,        \* create_lexicon: lexicon
    usfm_files,     \* contents of the input files
    fileIdx,        \* index of the file being extracted or merged
    todo,           \* sightings / records still to be processed
    content,        \* transform_usfm_content: content
    result,         \* transform_usfm_content: result
    replaced,       \* one record per call of replace_word
    word,           \* replace_word: the matched word
    replacement,    \* replace_word: the value returned
    requested       \* the arguments as the caller passed them

vars == <<pc, text, once, round, chars, num_words, words, nonsense_words,
          vocabulary, all_vocabulary, lexicon, usfm_files, fileIdx, todo,
          content, result, replaced, word, replacement, requested>>

punctVars == <<text, once, round>>
genVars   == <<chars, num_words, words, nonsense_words>>
vocVars   == <<vocabulary, all_vocabulary, usfm_files, fileIdx, todo>>
docVars   == <<content, result, replaced>>
caseVars  == <<word, replacement>>

None == <<>>

----------------------------------------------------------------------------
(* Characters and the str methods the program uses *)

LowerLetters == <<"a","b","c","d","e","f","g","h","i","j","k","l","m",
                  "n","o","p","q","r","s","t","u","v","w","x","y","z">>
UpperLetters == <<"A","B","C","D","E","F","G","H","I","J","K","L","M",
                  "N","O","P","Q","R","S","T","U","V","W","X","Y","Z">>

LowerSet == {LowerLetters[i] : i \in 1..26}
UpperSet == {UpperLetters[i] : i \in 1..26}
LetterSet == LowerSet \cup UpperSet
DigitSet == {"0","1","2","3","4","5","6","7","8","9"}
SpaceSet == {" ", "\n", "\t"}
WordSet == LetterSet \cup DigitSet \cup {"_"}
UpperOrDigitSet == UpperSet \cup DigitSet
PunctSet == {".", "!", "?", ";", ":", ","}
SentenceEndSet == {".", "!", "?"}

LowerOf == [c \in UpperSet |-> LowerLetters[CHOOSE i \in 1..26 : UpperLetters[i] = c]]
UpperOf == [c \in LowerSet |-> UpperLetters[CHOOSE i \in 1..26 : LowerLetters[i] = c]]

LowerCh(c) == IF c \in UpperSet THEN LowerOf[c] ELSE c
UpperCh(c) == IF c \in LowerSet THEN UpperOf[c] ELSE c

\* str.lower()
Lower(s) == [i \in 1..Len(s) |-> LowerCh(s[i])]
\* str.upper()
Upper(s) == [i \in 1..Len(s) |-> UpperCh(s[i])]
\* str.capitalize()
Capitalize(s) == [i \in 1..Len(s) |-> IF i = 1 THEN UpperCh(s[i]) ELSE LowerCh(s[i])]
\* str.isupper(): at least one cased character and no lowercase one
IsUpper(s) == /\ \E i \in 1..Len(s) : s[i] \in UpperSet
              /\ \A i \in 1..Len(s) : s[i] \notin LowerSet

Min(a, b) == IF a < b THEN a ELSE b

\* end of the run of characters of set cs that starts at position i
\* (the first position at or after i whose character is outside cs)
RECURSIVE RunEnd(_, _, _)
RunEnd(s, i, cs) == IF i <= Len(s) /\ s[i] \in cs THEN RunEnd(s, i + 1, cs) ELSE i

----------------------------------------------------------------------------
(* The spacing substitutions of transform_usfm_content *)

\* re.sub of a two-character pattern (a)(b), a in first, b in second, by
\* "a b": left to right, matches do not overlap
RECURSIVE SubPair(_, _, _, _)
SubPair(s, i, first, second) ==
    IF i > Len(s) THEN <<>>
    ELSE IF i < Len(s) /\ s[i] \in first /\ s[i + 1] \in second
         THEN <<s[i], " ", s[i + 1]>> \o SubPair(s, i + 2, first, second)
         ELSE <<s[i]>> \o SubPair(s, i + 1, first, second)

\* re.sub(r'(\w)([.!?;:,])', r'\1 \2', result)
SpaceBeforePunct(s) == SubPair(s, 1, WordSet, PunctSet)

\* a space after every punctuation mark, whatever follows it
RECURSIVE SpaceAfterEveryPunct(_)
SpaceAfterEveryPunct(s) ==
    IF s = <<>> THEN <<>>
    ELSE IF Head(s) \in PunctSet THEN <<Head(s), " ">> \o SpaceAfterEveryPunct(Tail(s))
         ELSE <<Head(s)>> \o SpaceAfterEveryPunct(Tail(s))

\* re.sub(r'([.!?;:,])(\w)', r'\1 \2', result)
SpaceAfterPunct(s) == SubPair(s, 1, PunctSet, WordSet)

\* re.sub(r'"(\w)', r'" \1', result)
SpaceAfterQuote(s) == SubPair(s, 1, {"\""}, WordSet)

\* re.sub(r'(\w)\\', r'\1 \\', result)
SpaceBeforeBackslash(s) == SubPair(s, 1, WordSet, {"\\"})

\* the four substitutions in the order of the code
FixPunctuation(s) ==
    SpaceBeforeBackslash(SpaceAfterQuote(SpaceAfterPunct(SpaceBeforePunct(s))))

----------------------------------------------------------------------------
(* Bounded inputs *)

\* all sequences over set S of length at most n
RECURSIVE SeqsUpTo(_, _)
SeqsUpTo(S, n) ==
    IF n = 0 THEN {<<>>}
    ELSE LET shorter == SeqsUpTo(S, n - 1)
         IN  shorter \cup {Append(t, c) : t \in {u \in shorter : Len(u) = n - 1}, c \in S}

MaxText == 5
TextChars == {"a", "1", ".", ",", "\"", "\\", " "}

----------------------------------------------------------------------------
(* generate_unique_nonsense_words *)

Range(s) == {s[i] : i \in 1..Len(s)}

\* chars[1:-1] when chars starts with '[' and ends with ']'
StripBrackets(cs) ==
    IF Len(cs) >= 1 /\ cs[1] = "[" /\ cs[Len(cs)] = "]"
    THEN SubSeq(cs, 2, Len(cs) - 1)
    ELSE cs

\* len(char_list) ** 4
MaxPossible(char_list) == Len(char_list) * Len(char_list) * Len(char_list) * Len(char_list)

\* num_words after the warning branch
ClampCount(n, char_list) == IF n > MaxPossible(char_list) THEN MaxPossible(char_list) ELSE n

\* every value ''.join(random.choice(char_list) for _ in range(4)) can take
RandomWords(char_list) == [1..4 -> Range(char_list)]

\* a loop test that lets the loop run once more than asked
LoopContinuesOnceMore(ws, n) == Cardinality(ws) <= n

\* while len(words) < num_words
LoopContinues(ws, n) == Cardinality(ws) < n

\* list(words): the elements of the set in some order
ListsOf(S) == {f \in [1..Cardinality(S) -> S] : \A i, j \in DOMAIN f : i # j => f[i] # f[j]}

MaxAlphabet == 2
MaxCount == 2
AlphabetChars == {"a", "b"}

\* alphabets as passed on the command line: bare, wrapped in brackets, or
\* with an opening bracket only
AlphabetInputs ==
    LET inner == SeqsUpTo(AlphabetChars, MaxAlphabet)
    IN  inner \cup {<<"[">> \o a \o <<"]">> : a \in inner}
              \cup {<<"[">> \o a : a \in {b \in inner : Len(b) <= 1}}

GenInit ==
    /\ pc = "gen_start"
    /\ chars \in AlphabetInputs
    /\ num_words \in 0..MaxCount
    /\ requested = [chars |-> chars, num_words |-> num_words]
    /\ words = {} /\ nonsense_words = None
    /\ text = None /\ once = None /\ round = 0
    /\ vocabulary = None /\ all_vocabulary = None /\ lexicon = None
    /\ usfm_files = None /\ fileIdx = 0 /\ todo = None
    /\ content = None /\ result = None /\ replaced = None
    /\ word = None /\ replacement = None

GenRest == UNCHANGED <<punctVars, vocVars, lexicon, docVars, caseVars, requested>>

\* lines 59-69: strip the brackets, start with the empty set, clamp the count
GenStart ==
    /\ pc = "gen_start"
    /\ chars' = StripBrackets(chars)
    /\ num_words' = ClampCount(num_words, StripBrackets(chars))
    /\ words' = {}
    /\ pc' = "sampling"
    /\ UNCHANGED nonsense_words
    /\ GenRest

\* lines 71-73: one iteration of the rejection-sampling loop
Sample ==
    /\ pc = "sampling"
    /\ LoopContinues(words, num_words)
    /\ \E w \in RandomWords(chars) : words' = words \cup {w}
    /\ UNCHANGED <<pc, chars, num_words, nonsense_words>>
    /\ GenRest

\* line 75: the loop test fails, the set is returned as a list
GenReturn ==
    /\ pc = "sampling"
    /\ ~LoopContinues(words, num_words)
    /\ nonsense_words' \in ListsOf(words)
    /\ pc' = "gen_done"
    /\ UNCHANGED <<chars, num_words, words>>
    /\ GenRest

GenNext == GenStart \/ Sample \/ GenReturn

GenSpec == GenInit /\ [][GenNext]_vars

\* the alphabet the caller asked for, brackets stripped
RequestedAlphabet == StripBrackets(requested.chars)

IsDistinct(l) == \A i, j \in 1..Len(l) : i # j => l[i] # l[j]

\* C3: the list returned holds exactly min(N, |A|^4) strings, pairwise
\* distinct, each of length 4 and made only of characters of the alphabet A
C3_UniqueTokens ==
    pc = "gen_done" =>
        LET A == RequestedAlphabet
            N == requested.num_words
            A4 == Len(A) * Len(A) * Len(A) * Len(A)
        IN  /\ Len(nonsense_words) = Min(N, A4)
            /\ IsDistinct(nonsense_words)
            /\ \A i \in 1..Len(nonsense_words) :
                  /\ Len(nonsense_words[i]) = 4
                  /\ \A k \in 1..4 : nonsense_words[i][k] \in Range(A)

\* the brackets were stripped and the count clamped: two words were asked
\* of the one-letter alphabet [a], the one possible word is returned
C3_Witness ==
    /\ pc = "gen_done"
    /\ requested.chars = <<"[", "a", "]">>
    /\ requested.num_words = 2
    /\ nonsense_words = << <<"a", "a", "a", "a">> >>

\* no list of n distinct 4-character words can be drawn from the alphabet
Degenerate(alphabet, n) ==
    LET d == Cardinality(Range(alphabet))
    IN  n >= 1 /\ (alphabet = <<>> \/ d * d * d * d < n)

\* C4: on an empty alphabet, or one with too few distinct characters for the
\* requested count, generation fails with InvalidAlphabet: it neither enters
\* the sampling loop nor returns a list
C4_InvalidAlphabet ==
    Degenerate(RequestedAlphabet, requested.num_words) =>
        pc \in {"gen_start", "invalid_alphabet"}

----------------------------------------------------------------------------
(* extract_vocabulary_from_usfm *)

\* end of a match of \\[a-zA-Z]+[0-9]*\s*(?:\d+\s*)? whose letters start at i
TagEnd(s, i) ==
    LET afterName   == RunEnd(s, i, LetterSet)
        afterDigits == RunEnd(s, afterName, DigitSet)
        afterSpace  == RunEnd(s, afterDigits, SpaceSet)
    IN  IF afterSpace <= Len(s) /\ s[afterSpace] \in DigitSet
        THEN RunEnd(s, RunEnd(s, afterSpace, DigitSet), SpaceSet)
        ELSE afterSpace

\* re.sub(r'\\[a-zA-Z]+[0-9]*\s*(?:\d+\s*)?', ' ', content), from position i
RECURSIVE StripTagsFrom(_, _)
StripTagsFrom(s, i) ==
    IF i > Len(s) THEN <<>>
    ELSE IF s[i] = "\\" /\ i < Len(s) /\ s[i + 1] \in LetterSet
         THEN <<" ">> \o StripTagsFrom(s, TagEnd(s, i + 1))
         ELSE <<s[i]>> \o StripTagsFrom(s, i + 1)

StripTags(s) == StripTagsFrom(s, 1)

\* re.split(r'[.!?]+', text_only), from position i; cur is the piece so far
RECURSIVE SplitSentencesFrom(_, _, _)
SplitSentencesFrom(s, i, cur) ==
    IF i > Len(s) THEN <<cur>>
    ELSE IF s[i] \in SentenceEndSet
         THEN <<cur>> \o SplitSentencesFrom(s, RunEnd(s, i, SentenceEndSet), <<>>)
         ELSE SplitSentencesFrom(s, i + 1, Append(cur, s[i]))

SplitSentences(s) == SplitSentencesFrom(s, 1, <<>>)

\* \b[a-zA-Z]+\b matches at i: a whole run of letters with no word character
\* on either side
WordAt(s, i) ==
    /\ s[i] \in LetterSet
    /\ (i = 1 \/ s[i - 1] \notin WordSet)
    /\ LET e == RunEnd(s, i, LetterSet) IN e > Len(s) \/ s[e] \notin WordSet

\* re.findall(r'\b[a-zA-Z]+\b', sentence), from position i
RECURSIVE FindWordsFrom(_, _)
FindWordsFrom(s, i) ==
    IF i > Len(s) THEN <<>>
    ELSE IF WordAt(s, i)
         THEN <<SubSeq(s, i, RunEnd(s, i, LetterSet) - 1)>> \o FindWordsFrom(s, RunEnd(s, i, LetterSet))
         ELSE FindWordsFrom(s, i + 1)

FindWords(s) == FindWordsFrom(s, 1)

\* the (i, word) pairs of enumerate(words), i counted from 0
Enumerate(ws) == [k \in 1..Len(ws) |-> [word |-> ws[k], i |-> k - 1]]

RECURSIVE Flatten(_)
Flatten(ll) == IF ll = <<>> THEN <<>> ELSE Head(ll) \o Flatten(Tail(ll))

\* every (sentence, i, word) the two loops of lines 23-27 visit, in order
Sightings(file) ==
    LET sentences == SplitSentences(StripTags(file))
    IN  Flatten([k \in 1..Len(sentences) |-> Enumerate(FindWords(sentences[k]))])

\* dict helpers: a dict is a sequence of records with distinct keys
Keys(d) == {d[k].key : k \in 1..Len(d)}
IndexOf(d, key) == CHOOSE k \in 1..Len(d) : d[k].key = key
Get(d, key) == d[IndexOf(d, key)]

\* lines 30-38: preserve_caps of one sighting
PreserveCaps(w, i) ==
    IF w[1] \in UpperSet /\ i > 0 THEN TRUE
    ELSE IF IsUpper(w) /\ Len(w) > 1 THEN TRUE
    ELSE FALSE

\* a sighting that stores its own flag over the one already recorded
SeeWordOverwriting(vocab, w, i) ==
    LET word_lower == Lower(w)
        preserve_caps == PreserveCaps(w, i)
    IN  IF word_lower \notin Keys(vocab)
        THEN Append(vocab, [key |-> word_lower,
                            original |-> IF preserve_caps THEN w ELSE word_lower,
                            preserve_caps |-> preserve_caps,
                            count |-> 1])
        ELSE LET k == IndexOf(vocab, word_lower)
             IN  [vocab EXCEPT ![k] = [@ EXCEPT !.count = @ + 1,
                                                !.original = IF preserve_caps THEN w ELSE word_lower,
                                                !.preserve_caps = preserve_caps]]

\* lines 28-52: the body of the loop over the words of a sentence
SeeWord(vocab, w, i) ==
    LET word_lower == Lower(w)
        preserve_caps == PreserveCaps(w, i)
    IN  IF word_lower \notin Keys(vocab)
        THEN Append(vocab, [key |-> word_lower,
                            original |-> IF preserve_caps THEN w ELSE word_lower,
                            preserve_caps |-> preserve_caps,
                            count |-> 1])
        ELSE LET k == IndexOf(vocab, word_lower)
                 counted == [vocab EXCEPT ![k].count = @ + 1]
             IN  IF preserve_caps /\ ~vocab[k].preserve_caps
                 THEN [counted EXCEPT ![k].original = w, ![k].preserve_caps = TRUE]
                 ELSE counted

\* lines 181-189: one word of a file's vocabulary folded into all_vocabulary
MergeRecord(all, word_info) ==
    IF word_info.key \in Keys(all)
    THEN LET k == IndexOf(all, word_info.key)
             counted == [all EXCEPT ![k].count = @ + word_info.count]
         IN  IF word_info.preserve_caps /\ ~all[k].preserve_caps
             THEN [counted EXCEPT ![k].original = word_info.original, ![k].preserve_caps = TRUE]
             ELSE counted
    ELSE Append(all, word_info)

\* lines 13-21: the file is read and cut into sentences and words
ExtractStart ==
    /\ pc = "extract_start"
    /\ todo' = Sightings(usfm_files[fileIdx])
    /\ vocabulary' = <<>>
    /\ pc' = "extracting"
    /\ UNCHANGED <<all_vocabulary, usfm_files, fileIdx>>
    /\ UNCHANGED <<punctVars, genVars, lexicon, docVars, caseVars, requested>>

\* lines 27-52: one word of one sentence
Sighting ==
    /\ pc = "extracting"
    /\ todo # <<>>
    /\ vocabulary' = SeeWord(vocabulary, Head(todo).word, Head(todo).i)
    /\ todo' = Tail(todo)
    /\ UNCHANGED <<pc, all_vocabulary, usfm_files, fileIdx>>
    /\ UNCHANGED <<punctVars, genVars, lexicon, docVars, caseVars, requested>>

\* line 54 and line 181: the file's vocabulary is returned, its items are
\* about to be merged
ExtractReturn ==
    /\ pc = "extracting"
    /\ todo = <<>>
    /\ todo' = vocabulary
    /\ pc' = "merging"
    /\ UNCHANGED <<vocabulary, all_vocabulary, usfm_files, fileIdx>>
    /\ UNCHANGED <<punctVars, genVars, lexicon, docVars, caseVars, requested>>

\* lines 181-189: one iteration of the merge loop
MergeStep ==
    /\ pc = "merging"
    /\ todo # <<>>
    /\ all_vocabulary' = MergeRecord(all_vocabulary, Head(todo))
    /\ todo' = Tail(todo)
    /\ UNCHANGED <<pc, vocabulary, usfm_files, fileIdx>>
    /\ UNCHANGED <<punctVars, genVars, lexicon, docVars, caseVars, requested>>

\* line 176: the loop moves on to the next file
NextFile ==
    /\ pc = "merging"
    /\ todo = <<>>
    /\ fileIdx < Len(usfm_files)
    /\ fileIdx' = fileIdx + 1
    /\ pc' = "extract_start"
    /\ UNCHANGED <<vocabulary, all_vocabulary, usfm_files, todo>>
    /\ UNCHANGED <<punctVars, genVars, lexicon, docVars, caseVars, requested>>

\* line 191: every file has been merged
MergeDone ==
    /\ pc = "merging"
    /\ todo = <<>>
    /\ fileIdx = Len(usfm_files)
    /\ pc' = "merged"
    /\ UNCHANGED <<vocabulary, all_vocabulary, usfm_files, fileIdx, todo>>
    /\ UNCHANGED <<punctVars, genVars, lexicon, docVars, caseVars, requested>>

\* documents are built from pieces: chains of at most n pieces
RECURSIVE Chains(_, _)
Chains(P, n) ==
    IF n = 0 THEN {<<>>}
    ELSE LET shorter == Chains(P, n - 1)
         IN  shorter \cup {p \o t : p \in P, t \in shorter}

MaxSightings == 2
VocabPieces == { <<"a", " ">>, <<"A", " ">>, <<"a", "b", " ">>, <<"A", "b", " ">>,
                 <<"A", "B", " ">>, <<".", " ">> }

VocabInit ==
    /\ pc = "extract_start"
    /\ usfm_files \in [1..2 -> Chains(VocabPieces, MaxSightings)]
    /\ fileIdx = 1
    /\ vocabulary = <<>> /\ all_vocabulary = <<>> /\ todo = <<>>
    /\ text = None /\ once = None /\ round = 0
    /\ chars = None /\ num_words = 0 /\ words = {} /\ nonsense_words = None
    /\ lexicon = None
    /\ content = None /\ result = None /\ replaced = None
    /\ word = None /\ replacement = None /\ requested = None

VocabNext == \/ ExtractStart \/ Sighting \/ ExtractReturn
             \/ MergeStep \/ NextFile \/ MergeDone

VocabSpec == VocabInit /\ [][VocabNext]_vars

\* the record of every word flagged in d is, in e, still flagged, not back to
\* its lowercase form, and counted at least as often
Latched(d, e) ==
    \A k \in 1..Len(d) :
        /\ k <= Len(e)
        /\ e[k].key = d[k].key
        /\ e[k].count >= d[k].count
        /\ d[k].preserve_caps => (e[k].preserve_caps /\ e[k].original # e[k].key)

\* a sighting qualifies when capitalised at a non-initial position of its
\* sentence, or all uppercase and longer than one letter
Qualifies(sighting) ==
    \/ sighting.word[1] \in UpperSet /\ sighting.i > 0
    \/ Len(sighting.word) > 1 /\ \A k \in 1..Len(sighting.word) : sighting.word[k] \in UpperSet

CorpusSightings(files) == Flatten([f \in 1..Len(files) |-> Sightings(files[f])])

\* the flag of every word of the merged vocabulary is set exactly when some
\* sighting of the word in the files qualified, and every word sighted has a
\* record
FlagsMatchCorpus(files, merged) ==
    LET seen == CorpusSightings(files)
    IN  /\ \A k \in 1..Len(seen) : Lower(seen[k].word) \in Keys(merged)
        /\ \A k \in 1..Len(merged) :
              merged[k].preserve_caps <=>
                  \E j \in 1..Len(seen) : /\ Lower(seen[j].word) = merged[k].key
                                          /\ Qualifies(seen[j])

\* C9: preserve_caps is a one-way latch: no sighting within a file and no
\* merge clears it, restores the lowercase form or lowers a count, and after
\* the last merge the flag of a word is set exactly when some sighting of it
\* in the corpus qualified
C9_Latch ==
    [][/\ (pc = "extracting" => Latched(vocabulary, vocabulary'))
       /\ Latched(all_vocabulary, all_vocabulary')
       /\ (pc' = "merged" => FlagsMatchCorpus(usfm_files, all_vocabulary'))]_vars

\* a word flagged by the first file and seen only in lowercase in the second
\* is still flagged after both merges
C9_Witness ==
    /\ pc = "merged"
    /\ usfm_files = << <<"a", "b", " ", "A", "B", " ">>, <<"a", "b", " ", "a", "b", " ">> >>
    /\ all_vocabulary = << [key |-> <<"a", "b">>, original |-> <<"A", "B">>,
                            preserve_caps |-> TRUE, count |-> 4] >>

----------------------------------------------------------------------------
(* create_lexicon *)

\* position of the first item with the largest count
FirstMax(items) ==
    CHOOSE k \in 1..Len(items) :
        /\ \A j \in 1..Len(items) : items[j].count <= items[k].count
        /\ \A j \in 1..(k - 1) : items[j].count < items[k].count

Without(items, k) == SubSeq(items, 1, k - 1) \o SubSeq(items, k + 1, Len(items))

\* vocab_items.sort(key=count, reverse=True): a stable sort, most frequent first
RECURSIVE SortByCount(_)
SortByCount(items) ==
    IF items = <<>> THEN <<>>
    ELSE <<items[FirstMax(items)]>> \o SortByCount(Without(items, FirstMax(items)))

LexRest == UNCHANGED <<punctVars, chars, num_words, words, vocabulary, usfm_files,
                       fileIdx, docVars, caseVars, requested>>

\* lines 79-83: the items of the vocabulary, sorted
LexStart ==
    /\ pc = "lex_start"
    /\ todo' = SortByCount(all_vocabulary)
    /\ lexicon' = <<>>
    /\ pc' = "lex_loop"
    /\ UNCHANGED <<all_vocabulary, nonsense_words>>
    /\ LexRest

\* lines 86-87: the i-th word gets the i-th nonsense word
LexAssign ==
    /\ pc = "lex_loop"
    /\ todo # <<>>
    /\ Len(lexicon) < Len(nonsense_words)
    /\ lexicon' = Append(lexicon, [key |-> Head(todo).key, token |-> nonsense_words[Len(lexicon) + 1]])
    /\ todo' = Tail(todo)
    /\ UNCHANGED <<pc, all_vocabulary, nonsense_words>>
    /\ LexRest

\* lines 88-91: out of nonsense words, one more is drawn from the characters
\* of nonsense_words[0]
LexFallback ==
    /\ pc = "lex_loop"
    /\ todo # <<>>
    /\ Len(lexicon) >= Len(nonsense_words)
    /\ nonsense_words # <<>>
    /\ \E additional_word \in RandomWords(nonsense_words[1]) :
          lexicon' = Append(lexicon, [key |-> Head(todo).key, token |-> additional_word])
    /\ todo' = Tail(todo)
    /\ UNCHANGED <<pc, all_vocabulary, nonsense_words>>
    /\ LexRest

\* line 90 with an empty list: nonsense_words[0] raises IndexError
LexIndexError ==
    /\ pc = "lex_loop"
    /\ todo # <<>>
    /\ Len(lexicon) >= Len(nonsense_words)
    /\ nonsense_words = <<>>
    /\ pc' = "IndexError"
    /\ UNCHANGED <<lexicon, todo, all_vocabulary, nonsense_words>>
    /\ LexRest

\* line 93
LexReturn ==
    /\ pc = "lex_loop"
    /\ todo = <<>>
    /\ pc' = "lex_done"
    /\ UNCHANGED <<lexicon, todo, all_vocabulary, nonsense_words>>
    /\ LexRest

MaxVocab == 2
MaxWordCount == 2
LexKeys == { <<"a">>, <<"b">>, <<"c">> }
LexTokens == { <<"x", "x", "x", "x">>, <<"x", "y", "x", "y">> }

\* vocabularies of at most n words with distinct keys
RECURSIVE VocabulariesUpTo(_)
VocabulariesUpTo(n) ==
    IF n = 0 THEN {<<>>}
    ELSE LET shorter == VocabulariesUpTo(n - 1)
         IN  shorter \cup
             {Append(v, [key |-> k, original |-> k, preserve_caps |-> FALSE, count |-> c]) :
                 v \in {u \in shorter : Len(u) = n - 1}, k \in LexKeys, c \in 1..MaxWordCount}

LexInit ==
    /\ pc = "lex_start"
    /\ all_vocabulary \in {v \in VocabulariesUpTo(MaxVocab) :
                              \A i, j \in 1..Len(v) : i # j => v[i].key # v[j].key}
    /\ nonsense_words \in UNION {ListsOf(S) : S \in SUBSET LexTokens}
    /\ lexicon = <<>> /\ todo = <<>>
    /\ text = None /\ once = None /\ round = 0
    /\ chars = None /\ num_words = 0 /\ words = {}
    /\ vocabulary = None /\ usfm_files = None /\ fileIdx = 0
    /\ content = None /\ result = None /\ replaced = None
    /\ word = None /\ replacement = None /\ requested = None

LexNext == LexStart \/ LexAssign \/ LexFallback \/ LexIndexError \/ LexReturn

LexSpec == LexInit /\ [][LexNext]_vars

\* C5: for every vocabulary and every list of nonsense words, a list shorter
\* than the vocabulary or empty included, create_lexicon completes, and the
\* lexicon it returns has exactly the keys of the vocabulary, one entry per
\* word, each value a word of 4 characters
C5_LexiconComplete ==
    /\ pc # "IndexError"
    /\ pc = "lex_done" =>
          /\ Keys(lexicon) = Keys(all_vocabulary)
          /\ Len(lexicon) = Len(all_vocabulary)
          /\ \A k \in 1..Len(lexicon) : Len(lexicon[k].token) = 4

----------------------------------------------------------------------------
(* transform_usfm_content *)

\* a match of \\id\s+ starts at j
IdTagAt(s, j) ==
    /\ j + 3 <= Len(s)
    /\ s[j] = "\\" /\ s[j + 1] = "i" /\ s[j + 2] = "d"
    /\ s[j + 3] \in SpaceSet

\* lines 104-111: last_id_match.end() in preceding_text, counted so that the
\* text after the match starts at this position; 0 when there is no match
LastIdEnd(preceding_text) ==
    LET starts == {j \in 1..Len(preceding_text) : IdTagAt(preceding_text, j)}
    IN  IF starts = {} THEN 0
        ELSE RunEnd(preceding_text, (CHOOSE j \in starts : \A k \in starts : k <= j) + 3, SpaceSet)

\* lines 102-114: the word is on the line of an \id tag
OnIdLine(s, start) ==
    LET preceding_text == SubSeq(s, 1, start - 1)
        e == LastIdEnd(preceding_text)
    IN  /\ e > 0
        /\ \A k \in e..Len(preceding_text) : preceding_text[k] # "\n"

\* the token cased after this occurrence alone, whatever the vocabulary says
CaseTokenByOccurrence(w, token, vocab) ==
    IF IsUpper(w) THEN Upper(token)
    ELSE IF w[1] \in UpperSet THEN Capitalize(token)
    ELSE token

\* lines 119-130: the replacement with the capitalization applied
CaseToken(w, token, vocab) ==
    LET word_lower == Lower(w)
    IN  IF word_lower \in Keys(vocab) /\ Get(vocab, word_lower).preserve_caps
        THEN LET original == Get(vocab, word_lower).original
                 capitalized == IF original[1] \in UpperSet THEN Capitalize(token) ELSE token
             IN  IF IsUpper(original) THEN Upper(capitalized) ELSE capitalized
        ELSE IF w[1] \in UpperSet THEN Capitalize(token)
        ELSE IF IsUpper(w) THEN Upper(token)
        ELSE token

\* replace_word looking the word up as written, not in lowercase
ReplaceWordCaseSensitive(s, start, w, lex, vocab) ==
    IF OnIdLine(s, start) THEN w
    ELSE IF w \in Keys(lex) THEN CaseToken(w, Get(lex, w).token, vocab)
    ELSE w

\* lines 97-134: replace_word for the match of w that starts at start
ReplaceWord(s, start, w, lex, vocab) ==
    IF OnIdLine(s, start) THEN w
    ELSE IF Lower(w) \in Keys(lex) THEN CaseToken(w, Get(lex, Lower(w)).token, vocab)
    ELSE w

\* line 138: (?<!\\[a-zA-Z])\b[a-zA-Z]+\b matches at i
RewriteMatchAt(s, i) ==
    /\ ~(i >= 3 /\ s[i - 2] = "\\" /\ s[i - 1] \in LetterSet)
    /\ WordAt(s, i)

\* the calls of replace_word that re.sub makes, in order
RECURSIVE ReplaceCallsFrom(_, _, _, _)
ReplaceCallsFrom(s, i, lex, vocab) ==
    IF i > Len(s) THEN <<>>
    ELSE IF RewriteMatchAt(s, i)
         THEN LET w == SubSeq(s, i, RunEnd(s, i, LetterSet) - 1)
              IN  <<[start |-> i, word |-> w, replacement |-> ReplaceWord(s, i, w, lex, vocab)]>>
                  \o ReplaceCallsFrom(s, RunEnd(s, i, LetterSet), lex, vocab)
         ELSE ReplaceCallsFrom(s, i + 1, lex, vocab)

\* line 138: the content with every match replaced by what replace_word
\* returned for it
RECURSIVE Substitute(_, _, _)
Substitute(s, i, calls) ==
    IF i > Len(s) THEN <<>>
    ELSE IF calls # <<>> /\ Head(calls).start = i
         THEN Head(calls).replacement \o Substitute(s, i + Len(Head(calls).word), Tail(calls))
         ELSE <<s[i]>> \o Substitute(s, i + 1, calls)

\* end of a match of .* that starts at i: the next line break
RECURSIVE LineEnd(_, _)
LineEnd(s, i) == IF i <= Len(s) /\ s[i] # "\n" THEN LineEnd(s, i + 1) ELSE i

\* line 141: re.sub(r'\\id\s+([A-Z0-9]+).*', r'\\id \1', result), from position i
RECURSIVE CleanIdLinesFrom(_, _)
CleanIdLinesFrom(s, i) ==
    IF i > Len(s) THEN <<>>
    ELSE IF IdTagAt(s, i)
            /\ RunEnd(s, i + 3, SpaceSet) <= Len(s)
            /\ s[RunEnd(s, i + 3, SpaceSet)] \in UpperOrDigitSet
         THEN LET code == RunEnd(s, i + 3, SpaceSet)
                  codeEnd == RunEnd(s, code, UpperOrDigitSet)
              IN  <<"\\", "i", "d", " ">> \o SubSeq(s, code, codeEnd - 1)
                  \o CleanIdLinesFrom(s, LineEnd(s, codeEnd))
         ELSE <<s[i]>> \o CleanIdLinesFrom(s, i + 1)

CleanIdLines(s) == CleanIdLinesFrom(s, 1)

\* lines 138-155
TransformContent(s, lex, vocab) ==
    FixPunctuation(CleanIdLines(Substitute(s, 1, ReplaceCallsFrom(s, 1, lex, vocab))))

----------------------------------------------------------------------------
(* replace_word on one occurrence: the word is the whole content *)

CaseWords == { <<"a">>, <<"A">>, <<"g", "o">>, <<"G", "o">>, <<"G", "O">>, <<"g", "O">> }
CaseTokens == { <<"w", "x", "y", "z">>, <<"w", "X", "y", "Z">> }

\* the records extraction can leave for the word w: none, unflagged with the
\* lowercase form, or flagged with a sighting that starts with a capital
CaseVocabularies(w) ==
    { <<>>, <<[key |-> Lower(w), original |-> Lower(w), preserve_caps |-> FALSE, count |-> 1]>> }
    \cup { <<[key |-> Lower(w), original |-> f, preserve_caps |-> TRUE, count |-> c]>> :
              f \in {g \in CaseWords : Lower(g) = Lower(w) /\ g[1] \in UpperSet},
              c \in 1..MaxWordCount }

CaseInit ==
    /\ pc = "replace_word"
    /\ word \in CaseWords
    /\ content = word
    /\ all_vocabulary \in CaseVocabularies(word)
    /\ \E t \in CaseTokens : lexicon = <<[key |-> Lower(word), token |-> t]>>
    /\ replacement = None
    /\ text = None /\ once = None /\ round = 0
    /\ chars = None /\ num_words = 0 /\ words = {} /\ nonsense_words = None
    /\ vocabulary = None /\ usfm_files = None /\ fileIdx = 0 /\ todo = None
    /\ result = None /\ replaced = None /\ requested = None

\* lines 97-134 for the match at the start of the content
CallReplaceWord ==
    /\ pc = "replace_word"
    /\ replacement' = ReplaceWord(content, 1, word, lexicon, all_vocabulary)
    /\ pc' = "replaced"
    /\ UNCHANGED <<punctVars, genVars, vocVars, lexicon, docVars, word, requested>>

CaseNext == CallReplaceWord

CaseSpec == CaseInit /\ [][CaseNext]_vars

\* C6: a word the vocabulary flags preserve_caps with stored form F is
\* rewritten, whatever the casing of the occurrence, to the lexicon token
\* cased after F: all uppercase when F is, otherwise first letter uppercase
\* and the rest lowercase
C6_StoredCasing ==
    (pc = "replaced" /\ all_vocabulary # <<>> /\ all_vocabulary[1].preserve_caps) =>
        LET F == all_vocabulary[1].original
            token == lexicon[1].token
        IN  replacement = IF \A k \in 1..Len(F) : F[k] \in UpperSet
                          THEN [k \in 1..4 |-> UpperCh(token[k])]
                          ELSE [k \in 1..4 |-> IF k = 1 THEN UpperCh(token[k]) ELSE LowerCh(token[k])]

\* the all-uppercase occurrence GO of a word stored as Go got the token
\* capitalised only
C6_Witness ==
    /\ pc = "replaced"
    /\ word = <<"G", "O">>
    /\ all_vocabulary # <<>> /\ all_vocabulary[1].preserve_caps
    /\ all_vocabulary[1].original = <<"G", "o">>
    /\ replacement = <<"W", "x", "y", "z">>

\* C10: a replaced word that is not flagged preserve_caps (or has no record)
\* gets the token cased after the occurrence: uppercased when the occurrence
\* is all uppercase, capitalised when it only starts with a capital
C10_OccurrenceCasing ==
    (pc = "replaced" /\ ~(all_vocabulary # <<>> /\ all_vocabulary[1].preserve_caps)) =>
        LET token == lexicon[1].token
        IN  replacement =
                IF \A k \in 1..Len(word) : word[k] \in UpperSet
                THEN [k \in 1..4 |-> UpperCh(token[k])]
                ELSE IF word[1] \in UpperSet
                     THEN [k \in 1..4 |-> IF k = 1 THEN UpperCh(token[k]) ELSE LowerCh(token[k])]
                     ELSE token

----------------------------------------------------------------------------
(* process_usfm_directory on a directory of one file *)

MaxPieces == 3
Pieces == { <<"\\", "i", "d", " ", "G", "E", "N", " ">>,
            <<"\\", "v", " ", "1", " ">>,
            <<"i", "d", " ">>,
            <<"I", "d", " ">>,
            <<".", " ">>,
            <<"\n">> }
Alphabets == { <<>>, <<"x">>, <<"x", "y">> }

Init ==
    /\ pc = "extract_start"
    /\ usfm_files \in {<<d>> : d \in Chains(Pieces, MaxPieces)}
    /\ chars \in Alphabets
    /\ fileIdx = 1
    /\ vocabulary = <<>> /\ all_vocabulary = <<>> /\ todo = <<>>
    /\ num_words = 0 /\ words = {} /\ nonsense_words = <<>>
    /\ lexicon = <<>>
    /\ content = None /\ result = None /\ replaced = None
    /\ requested = None
    /\ text = None /\ once = None /\ round = 0
    /\ word = None /\ replacement = None

\* line 195: generate_unique_nonsense_words(chars, len(all_vocabulary))
CallGenerate ==
    /\ pc = "merged"
    /\ num_words' = Len(all_vocabulary)
    /\ requested' = [chars |-> chars, num_words |-> Len(all_vocabulary)]
    /\ pc' = "gen_start"
    /\ UNCHANGED <<punctVars, chars, words, nonsense_words, vocVars, lexicon, docVars, caseVars>>

\* line 199: create_lexicon(all_vocabulary, nonsense_words)
CallCreateLexicon ==
    /\ pc = "gen_done"
    /\ pc' = "lex_start"
    /\ UNCHANGED <<punctVars, genVars, vocVars, lexicon, docVars, caseVars, requested>>

\* lines 209-220: the file is read again, transformed and written
Transform ==
    /\ pc = "lex_done"
    /\ content' = usfm_files[fileIdx]
    /\ replaced' = ReplaceCallsFrom(usfm_files[fileIdx], 1, lexicon, all_vocabulary)
    /\ result' = TransformContent(usfm_files[fileIdx], lexicon, all_vocabulary)
    /\ pc' = "done"
    /\ UNCHANGED <<punctVars, genVars, vocVars, lexicon, caseVars, requested>>

Next == \/ ExtractStart \/ Sighting \/ ExtractReturn \/ MergeStep \/ MergeDone
        \/ CallGenerate \/ GenStart \/ Sample \/ GenReturn
        \/ CallCreateLexicon \/ LexStart \/ LexAssign \/ LexFallback \/ LexIndexError \/ LexReturn
        \/ Transform

Spec == Init /\ [][Next]_vars

\* the match starts right after a backslash: it is the name of a tag
IsTagName(s, start) == start > 1 /\ s[start - 1] = "\\"

\* C1: the letters of a tag name (the letter run right after a backslash)
\* are never replaced, also when the name is a key of the lexicon
C1_TagsKept ==
    pc = "done" =>
        \A k \in 1..Len(replaced) :
            IsTagName(content, replaced[k].start) => replaced[k].replacement = replaced[k].word

\* the position is on a line that has an \id tag before it
AfterIdTagOnLine(s, start) ==
    \E j \in 1..(start - 4) :
        /\ s[j] = "\\" /\ s[j + 1] = "i" /\ s[j + 2] = "d" /\ s[j + 3] \in SpaceSet
        /\ \A k \in j..(start - 1) : s[k] # "\n"

\* the occurrences of prose words outside the lines of \id tags
IsProseOccurrence(s, call) == ~IsTagName(s, call.start) /\ ~AfterIdTagOnLine(s, call.start)

IdLine == <<"\\", "i", "d", " ", "G", "E", "N">>

\* C7: a first line "\id GEN ..." comes out as exactly "\id GEN", no word of
\* that line is replaced, and the words of the following lines are replaced
C7_IdLineKept ==
    (pc = "done" /\ Len(content) >= 8 /\ SubSeq(content, 1, 8) = Append(IdLine, " ")) =>
        /\ SubSeq(result, 1, LineEnd(result, 1) - 1) = IdLine
        /\ \A k \in 1..Len(replaced) :
              IF replaced[k].start < LineEnd(content, 1)
              THEN replaced[k].replacement = replaced[k].word
              ELSE IsProseOccurrence(content, replaced[k])
                       => replaced[k].replacement # replaced[k].word

----------------------------------------------------------------------------
(* Specification of the punctuation pass: the pass is applied to a text and *)
(* then to its own output, one substitution per step                        *)

PunctInit ==
    /\ pc = "before_punct"
    /\ text \in SeqsUpTo(TextChars, MaxText)
    /\ once = None
    /\ round = 1
    /\ chars = None /\ num_words = 0 /\ words = {} /\ nonsense_words = None
    /\ vocabulary = None /\ all_vocabulary = None /\ lexicon = None
    /\ usfm_files = None /\ fileIdx = 0 /\ todo = None
    /\ content = None /\ result = None /\ replaced = None
    /\ word = None /\ replacement = None /\ requested = None

PunctRest == UNCHANGED <<genVars, vocVars, lexicon, docVars, caseVars, requested>>

DoSpaceBeforePunct ==
    /\ pc = "before_punct"
    /\ text' = SpaceBeforePunct(text)
    /\ pc' = "after_punct"
    /\ UNCHANGED <<once, round>>
    /\ PunctRest

DoSpaceAfterPunct ==
    /\ pc = "after_punct"
    /\ text' = SpaceAfterPunct(text)
    /\ pc' = "after_quote"
    /\ UNCHANGED <<once, round>>
    /\ PunctRest

DoSpaceAfterQuote ==
    /\ pc = "after_quote"
    /\ text' = SpaceAfterQuote(text)
    /\ pc' = "before_backslash"
    /\ UNCHANGED <<once, round>>
    /\ PunctRest

DoSpaceBeforeBackslash ==
    /\ pc = "before_backslash"
    /\ text' = SpaceBeforeBackslash(text)
    /\ IF round = 1
       THEN /\ once' = SpaceBeforeBackslash(text)
            /\ round' = 2
            /\ pc' = "before_punct"
       ELSE /\ pc' = "punct_done"
            /\ UNCHANGED <<once, round>>
    /\ PunctRest

PunctNext == \/ DoSpaceBeforePunct
             \/ DoSpaceAfterPunct
             \/ DoSpaceAfterQuote
             \/ DoSpaceBeforeBackslash

PunctSpec == PunctInit /\ [][PunctNext]_vars

\* C8: the punctuation fix-up pass is idempotent: applied to its own output
\* it yields that output unchanged
C8_Idempotent == pc = "punct_done" => text = once

\* a text all four substitutions changed has gone through the pass twice
C8_Witness == /\ pc = "punct_done"
              /\ once = <<"\"", " ", "a", " ", ".", " ", "a", " ", "\\">>

====
